---- MODULE Spec2Model ----
(***************************************************************************)
(* Model of src/segment_tree_node.py: a node-based segment tree with point *)
(* update and range-sum query.                                             *)
(*                                                                         *)
(* Python objects live on a heap; the model keeps the heap as a sequence   *)
(* of SegmentTreeNode records, a node's identity being its position.  The  *)
(* reference None is the handle 0.                                         *)
(***************************************************************************)
EXTENDS Integers, Sequences, FiniteSets, TLC

\* ---------------------------------------------------------------- bounds
\* Longest input list given to the constructor.
MaxLen == 4

\* Largest element value; element values range over -1..MaxVal.
MaxVal == 0

\* How far outside [0, n-1] the index arguments of update and query reach.
Margin == 1

Vals == {0 - 1} \cup (0 .. MaxVal)

RECURSIVE SeqsUpTo(_)
SeqsUpTo(n) == IF n = 0 THEN {<<>>}
               ELSE SeqsUpTo(n - 1) \cup [1 .. n -> Vals]

\* The lists the constructor is given: every list of 0..MaxLen elements.
Inputs == SeqsUpTo(MaxLen)

\* ------------------------------------------------------------ the program
VARIABLES
    heap,     \* the SegmentTreeNode objects allocated so far
    root,     \* SegmentTree.root: a handle into heap, None before construction
    arr,      \* reference array: the input list with the same assignments applied
    call,     \* the last call made: its name and arguments
    raised,   \* the exception that call raised, or "none"
    result,   \* the value that call returned (query), else 0
    pre,      \* the heap as it was when that call began
    procs,    \* interleaved specification: each thread's frame
    started   \* interleaved specification: calls begun so far, by kind

vars == <<heap, root, arr, call, raised, result, pre, procs, started>>

None == 0

\* SegmentTreeNode.__init__: start, end, value, and both children None.
SegmentTreeNode(start, end, value) ==
    [start |-> start, end |-> end, value |-> value, left |-> None, right |-> None]

\* Python lists are 0-based; nums[i] of the code is nums[i + 1] here.
At(nums, i) == nums[i + 1]

\* _build splitting off the first index instead of halving the range.
RECURSIVE _build_first(_, _, _, _)
_build_first(h, nums, start, end) ==
    IF start = end
    THEN [heap |-> Append(h, SegmentTreeNode(start, end, At(nums, start))),
          node |-> Len(h) + 1]
    ELSE LET mid  == start
             node == Len(h) + 1
             h0   == Append(h, SegmentTreeNode(start, end, 0))
             l    == _build_first(h0, nums, start, mid)
             h1   == [l.heap EXCEPT ![node].left = l.node]
             r    == _build_first(h1, nums, mid + 1, end)
             h2   == [r.heap EXCEPT ![node].right = r.node]
         IN  [heap |-> [h2 EXCEPT ![node].value =
                           h2[h2[node].left].value + h2[h2[node].right].value],
              node |-> node]

\* SegmentTree._build: returns the heap after the allocations and the handle
\* of the node built for [start, end].
RECURSIVE _build(_, _, _, _)
_build(h, nums, start, end) ==
    IF start = end
    THEN [heap |-> Append(h, SegmentTreeNode(start, end, At(nums, start))),
          node |-> Len(h) + 1]
    ELSE LET mid  == (start + end) \div 2
             node == Len(h) + 1
             h0   == Append(h, SegmentTreeNode(start, end, 0))
             l    == _build(h0, nums, start, mid)
             h1   == [l.heap EXCEPT ![node].left = l.node]
             r    == _build(h1, nums, mid + 1, end)
             h2   == [r.heap EXCEPT ![node].right = r.node]
         IN  [heap |-> [h2 EXCEPT ![node].value =
                           h2[h2[node].left].value + h2[h2[node].right].value],
              node |-> node]

\* The value line 75 stores: absent children count as 0.
ChildSum(h, node) ==
    (IF h[node].left # None THEN h[h[node].left].value ELSE 0)
      + (IF h[node].right # None THEN h[h[node].right].value ELSE 0)

\* _update without the recomputation of line 75.
RECURSIVE _update_norecompute(_, _, _, _)
_update_norecompute(h, node, index, new_value) ==
    IF h[node].start = h[node].end /\ h[node].end = index
    THEN [h EXCEPT ![node].value = new_value]
    ELSE IF h[node].left # None /\ index <= h[h[node].left].end
         THEN _update_norecompute(h, h[node].left, index, new_value)
         ELSE IF h[node].right # None
              THEN _update_norecompute(h, h[node].right, index, new_value)
              ELSE h

\* _update adding new_value to the leaf instead of storing it.
RECURSIVE _update_add(_, _, _, _)
_update_add(h, node, index, new_value) ==
    IF h[node].start = h[node].end /\ h[node].end = index
    THEN [h EXCEPT ![node].value = h[node].value + new_value]
    ELSE LET h1 == IF h[node].left # None /\ index <= h[h[node].left].end
                   THEN _update_add(h, h[node].left, index, new_value)
                   ELSE IF h[node].right # None
                        THEN _update_add(h, h[node].right, index, new_value)
                        ELSE h
         IN  [h1 EXCEPT ![node].value = ChildSum(h1, node)]

\* _update descending left on index < left.end instead of index <= left.end.
RECURSIVE _update_strict(_, _, _, _)
_update_strict(h, node, index, new_value) ==
    IF h[node].start = h[node].end /\ h[node].end = index
    THEN [h EXCEPT ![node].value = new_value]
    ELSE LET h1 == IF h[node].left # None /\ index < h[h[node].left].end
                   THEN _update_strict(h, h[node].left, index, new_value)
                   ELSE IF h[node].right # None
                        THEN _update_strict(h, h[node].right, index, new_value)
                        ELSE h
         IN  [h1 EXCEPT ![node].value = ChildSum(h1, node)]

\* SegmentTree._update: the heap after the recursive call on node.
RECURSIVE _update(_, _, _, _)
_update(h, node, index, new_value) ==
    IF h[node].start = h[node].end /\ h[node].end = index
    THEN [h EXCEPT ![node].value = new_value]
    ELSE LET h1 == IF h[node].left # None /\ index <= h[h[node].left].end
                   THEN _update(h, h[node].left, index, new_value)
                   ELSE IF h[node].right # None
                        THEN _update(h, h[node].right, index, new_value)
                        ELSE h
         IN  [h1 EXCEPT ![node].value = ChildSum(h1, node)]

\* _query taking any node that starts inside the range as fully contained.
RECURSIVE _query_startonly(_, _, _, _)
_query_startonly(h, node, left, right) ==
    IF node = None \/ h[node].end < left \/ h[node].start > right
    THEN 0
    ELSE IF left <= h[node].start
         THEN h[node].value
         ELSE _query_startonly(h, h[node].left, left, right)
                + _query_startonly(h, h[node].right, left, right)

\* _query answering 0 for a range that begins below index 0.
RECURSIVE _query_guarded(_, _, _, _)
_query_guarded(h, node, left, right) ==
    IF left < 0 \/ node = None \/ h[node].end < left \/ h[node].start > right
    THEN 0
    ELSE IF left <= h[node].start /\ h[node].end <= right
         THEN h[node].value
         ELSE _query_guarded(h, h[node].left, left, right)
                + _query_guarded(h, h[node].right, left, right)

\* SegmentTree._query: the sum returned for node and [left, right].
RECURSIVE _query(_, _, _, _)
_query(h, node, left, right) ==
    IF node = None \/ h[node].end < left \/ h[node].start > right
    THEN 0
    ELSE IF left <= h[node].start /\ h[node].end <= right
         THEN h[node].value
         ELSE _query(h, h[node].left, left, right)
                + _query(h, h[node].right, left, right)

\* A thread's frame: where it is in update or query, the call's arguments,
\* the chain of nodes whose calls are open (update) or still to visit
\* (query), the operands read for line 75, the running sum of a query, and
\* the leaf value the update overwrote.
Idle == [pc |-> "idle", index |-> 0, value |-> 0, left |-> 0, right |-> 0,
         stack |-> <<>>, a |-> 0, b |-> 0, acc |-> 0, old |-> 0]

\* The frame of a thread whose call has returned.
Done == [Idle EXCEPT !.pc = "done"]

Procs == {1, 2}

NoCall == [op |-> "none"]

Init ==
    /\ heap = <<>>
    /\ root = None
    /\ arr = <<>>
    /\ call = NoCall
    /\ raised = "none"
    /\ result = 0
    /\ pre = <<>>
    /\ procs = [p \in Procs |-> Idle]
    /\ started = [update |-> 0, query |-> 0]

\* __init__ rejecting one-element lists as well as the empty one.
Construct_short(nums) ==
    /\ root = None
    /\ call' = [op |-> "construct", nums |-> nums]
    /\ pre' = heap
    /\ result' = 0
    /\ IF Len(nums) <= 1
       THEN /\ raised' = "ValueError"
            /\ UNCHANGED <<heap, root, arr>>
       ELSE LET b == _build(heap, nums, 0, Len(nums) - 1)
            IN  /\ heap' = b.heap
                /\ root' = b.node
                /\ arr' = nums
                /\ raised' = "none"
    /\ UNCHANGED <<procs, started>>

\* SegmentTree.__init__(nums)
Construct(nums) ==
    /\ root = None
    /\ call' = [op |-> "construct", nums |-> nums]
    /\ pre' = heap
    /\ result' = 0
    /\ IF nums = <<>>
       THEN /\ raised' = "ValueError"
            /\ UNCHANGED <<heap, root, arr>>
       ELSE LET b == _build(heap, nums, 0, Len(nums) - 1)
            IN  /\ heap' = b.heap
                /\ root' = b.node
                /\ arr' = nums
                /\ raised' = "none"
    /\ UNCHANGED <<procs, started>>

n == Len(arr)

InRange(i) == 0 <= i /\ i <= n - 1

\* SegmentTree.update(index, new_value)
update(index, new_value) ==
    /\ root # None
    /\ call' = [op |-> "update", index |-> index, value |-> new_value]
    /\ pre' = heap
    /\ heap' = _update(heap, root, index, new_value)
    /\ raised' = "none"
    /\ result' = 0
    /\ arr' = IF InRange(index) THEN [arr EXCEPT ![index + 1] = new_value] ELSE arr
    /\ UNCHANGED <<root, procs, started>>

\* SegmentTree.query(left, right)
query(left, right) ==
    /\ root # None
    /\ call' = [op |-> "query", left |-> left, right |-> right]
    /\ pre' = heap
    /\ result' = _query(heap, root, left, right)
    /\ raised' = "none"
    /\ UNCHANGED <<heap, root, arr, procs, started>>

Indices == 0 .. (n - 1)

Wide == (0 - Margin) .. (n - 1 + Margin)

\* Calls a well-behaved client makes: updates at indices of the list, queries
\* over any pair of integers.
Next ==
    \/ \E nums \in Inputs : Construct(nums)
    \/ \E i \in Indices, v \in Vals : update(i, v)
    \/ \E l \in Wide, r \in Wide : query(l, r)

Spec == Init /\ [][Next]_vars

\* The same, with update called at any index.
NextAny ==
    \/ \E nums \in Inputs : Construct(nums)
    \/ \E i \in Wide, v \in Vals : update(i, v)
    \/ \E l \in Wide, r \in Wide : query(l, r)

SpecAny == Init /\ [][NextAny]_vars

\* ------------------------------------------- interleaved update and query
\* Two threads share one tree and each makes one call, update or query, with
\* no lock; a step is one read or one store of a node's value, or one call
\* entered.

Top(st) == st[Len(st)]

Pop(st) == SubSeq(st, 1, Len(st) - 1)

\* A store that is lost.
StoreValue_lost(h, node, v) == h

\* node.value = v
StoreValue(h, node, v) == [h EXCEPT ![node].value = v]

\* The lists the shared tree is built from: 1..MaxLen copies of one value.
FlatInputs == {[i \in 1 .. len |-> v] : len \in 1 .. MaxLen, v \in Vals}

ConcInit ==
    /\ \E nums \in FlatInputs :
          LET b == _build(<<>>, nums, 0, Len(nums) - 1)
          IN  /\ heap = b.heap
              /\ root = b.node
              /\ arr = nums
    /\ call = NoCall
    /\ raised = "none"
    /\ result = 0
    /\ pre = <<>>
    /\ procs = [p \in Procs |-> Idle]
    /\ started = [update |-> 0, query |-> 0]

\* update(index, new_value) is called: _update is entered at the root.
StartUpdate(p, index, new_value) ==
    /\ procs[p].pc = "idle"
    /\ procs' = [procs EXCEPT ![p] =
                    [Idle EXCEPT !.pc = "u_test", !.index = index,
                                 !.value = new_value, !.stack = <<root>>]]
    /\ started' = [started EXCEPT !.update = @ + 1]
    /\ UNCHANGED <<heap, root, arr, call, raised, result, pre>>

\* Lines 68-74 in the call open on the top node: store the leaf and return,
\* or enter the call on a child, or fall to line 75.
UTest(p) ==
    LET f    == procs[p]
        node == Top(f.stack)
    IN  /\ f.pc = "u_test"
        /\ IF heap[node].start = heap[node].end /\ heap[node].end = f.index
           THEN /\ heap' = StoreValue(heap, node, f.value)
                /\ arr' = [arr EXCEPT ![f.index + 1] = f.value]
                /\ procs' = [procs EXCEPT ![p] =
                       IF Len(f.stack) = 1
                       THEN Done
                       ELSE [f EXCEPT !.pc = "u_left", !.stack = Pop(f.stack),
                                      !.old = heap[node].value]]
           ELSE /\ UNCHANGED <<heap, arr>>
                /\ procs' = [procs EXCEPT ![p] =
                       IF heap[node].left # None /\ f.index <= heap[heap[node].left].end
                       THEN [f EXCEPT !.stack = Append(f.stack, heap[node].left)]
                       ELSE IF heap[node].right # None
                            THEN [f EXCEPT !.stack = Append(f.stack, heap[node].right)]
                            ELSE [f EXCEPT !.pc = "u_left"]]
        /\ UNCHANGED <<root, call, raised, result, pre, started>>

\* Line 75, first operand: node.left.value if node.left else 0.
UReadLeft(p) ==
    LET f    == procs[p]
        node == Top(f.stack)
    IN  /\ f.pc = "u_left"
        /\ procs' = [procs EXCEPT ![p] =
              [f EXCEPT !.pc = "u_right",
                        !.a = IF heap[node].left # None
                              THEN heap[heap[node].left].value ELSE 0]]
        /\ UNCHANGED <<heap, root, arr, call, raised, result, pre, started>>

\* Line 75, second operand: node.right.value if node.right else 0.
UReadRight(p) ==
    LET f    == procs[p]
        node == Top(f.stack)
    IN  /\ f.pc = "u_right"
        /\ procs' = [procs EXCEPT ![p] =
              [f EXCEPT !.pc = "u_store",
                        !.b = IF heap[node].right # None
                              THEN heap[heap[node].right].value ELSE 0]]
        /\ UNCHANGED <<heap, root, arr, call, raised, result, pre, started>>

\* Line 75, the store node.value = a + b, and the return to the caller.
UStore(p) ==
    LET f    == procs[p]
        node == Top(f.stack)
    IN  /\ f.pc = "u_store"
        /\ heap' = StoreValue(heap, node, f.a + f.b)
        /\ procs' = [procs EXCEPT ![p] =
              IF Len(f.stack) = 1
              THEN Done
              ELSE [f EXCEPT !.pc = "u_left", !.stack = Pop(f.stack),
                             !.a = 0, !.b = 0]]
        /\ UNCHANGED <<root, arr, call, raised, result, pre, started>>

\* query(left, right) is called: _query is entered at the root.
StartQuery(p, left, right) ==
    /\ procs[p].pc = "idle"
    /\ procs' = [procs EXCEPT ![p] =
                    [Idle EXCEPT !.pc = "q_visit", !.left = left,
                                 !.right = right, !.stack = <<root>>]]
    /\ started' = [started EXCEPT !.query = @ + 1]
    /\ UNCHANGED <<heap, root, arr, call, raised, result, pre>>

\* Lines 88-92 on the next node in the recursion's order (left before right):
\* nothing for no overlap, the node's value read for containment, else both
\* children are to visit.  The stack holds the nodes to visit, next one last.
QVisit(p) ==
    LET f    == procs[p]
        node == Top(f.stack)
        rest == Pop(f.stack)
        todo == IF node = None \/ heap[node].end < f.left \/ heap[node].start > f.right
                THEN rest
                ELSE IF f.left <= heap[node].start /\ heap[node].end <= f.right
                     THEN rest
                     ELSE rest \o <<heap[node].right, heap[node].left>>
        acc  == IF node = None \/ heap[node].end < f.left \/ heap[node].start > f.right
                THEN f.acc
                ELSE IF f.left <= heap[node].start /\ heap[node].end <= f.right
                     THEN f.acc + heap[node].value
                     ELSE f.acc
    IN  /\ f.pc = "q_visit"
        /\ IF todo = <<>>
           THEN /\ procs' = [procs EXCEPT ![p] = Done]
                /\ result' = acc
           ELSE /\ procs' = [procs EXCEPT ![p] = [f EXCEPT !.stack = todo, !.acc = acc]]
                /\ UNCHANGED result
        /\ UNCHANGED <<heap, root, arr, call, raised, pre, started>>

ConcNext ==
    \E p \in Procs :
        \/ \E i \in Indices, v \in Vals : StartUpdate(p, i, v)
        \/ UTest(p)
        \/ UReadLeft(p)
        \/ UReadRight(p)
        \/ UStore(p)
        \/ \E l \in Indices, r \in Indices : l <= r /\ StartQuery(p, l, r)
        \/ QVisit(p)

ConcSpec == ConcInit /\ [][ConcNext]_vars

\* ------------------------------------------------------------- properties
Nodes == 1 .. Len(heap)

IsLeaf(h, k) == h[k].start = h[k].end

Covers(h, k, i) == h[k].start <= i /\ i <= h[k].end

Max(a, b) == IF a >= b THEN a ELSE b

Min(a, b) == IF a <= b THEN a ELSE b

\* Brute-force sum of a[lo..hi] (0-based, inclusive); 0 when lo > hi.
RECURSIVE RefSum(_, _, _)
RefSum(a, lo, hi) == IF lo > hi THEN 0 ELSE At(a, lo) + RefSum(a, lo + 1, hi)

\* The sum of the elements whose index lies in both [l, r] and [0, n-1].
ClippedSum(a, l, r) == RefSum(a, Max(l, 0), Min(r, Len(a) - 1))

Shape(h) == [k \in 1 .. Len(h) |->
                <<h[k].start, h[k].end, h[k].left, h[k].right>>]

\* C1: after construction and any in-range updates, every query over
\* 0 <= a <= b <= n-1 returns the sum of the reference array over a..b, and
\* the value a query call returned is that sum; query(i, i) is element i.
QueryMatchesReference ==
    root # None =>
        /\ \A a \in Indices, b \in Indices :
               a <= b => _query(heap, root, a, b) = RefSum(arr, a, b)
        /\ \A i \in Indices : _query(heap, root, i, i) = At(arr, i)
        /\ (call.op = "query" /\ InRange(call.left) /\ InRange(call.right)
              /\ call.left <= call.right)
             => result = RefSum(arr, call.left, call.right)

\* An effective update has just run on a list of three or more elements and a
\* proper sub-range holding the updated index sums differently than before.
QueryAfterUpdateSeen ==
    /\ call.op = "update"
    /\ n >= 3
    /\ \E a \in Indices, b \in Indices :
          /\ a < b
          /\ b - a < n - 1
          /\ a <= call.index /\ call.index <= b
          /\ _query(heap, root, a, b) # _query(pre, root, a, b)
          /\ _query(heap, root, a, b) = RefSum(arr, a, b)

\* C2: after construction and any in-range updates every internal node's
\* value is the sum of its children's, every leaf holds the current element
\* at its index, and the root holds the sum of all elements.
SumInvariant ==
    root # None =>
        /\ \A k \in Nodes :
              IF IsLeaf(heap, k)
              THEN heap[k].value = At(arr, heap[k].start)
              ELSE /\ heap[k].left # None /\ heap[k].right # None
                   /\ heap[k].value
                        = heap[heap[k].left].value + heap[heap[k].right].value
        /\ heap[root].value = RefSum(arr, 0, n - 1)

\* An update has just changed the root's sum of a tree with internal nodes.
SumRestoredSeen ==
    /\ call.op = "update"
    /\ n >= 2
    /\ heap[root].value # pre[root].value
    /\ heap[root].value = RefSum(arr, 0, n - 1)

\* C3 (as claimed): an update at an index outside [0, n-1] raises and leaves
\* every node as it was.
OutOfRangeUpdateRejected ==
    (call.op = "update" /\ ~InRange(call.index))
        => (raised = "ValueError" /\ heap = pre)

\* C4: constructing from the empty list raises ValueError and leaves no
\* tree; constructing from a non-empty list yields a tree and raises nothing.
ConstructRaisesIffEmpty ==
    call.op = "construct" =>
        IF call.nums = <<>>
        THEN raised = "ValueError" /\ root = None /\ heap = pre
        ELSE raised = "none" /\ root # None /\ arr = call.nums

ConstructEmptySeen ==
    call.op = "construct" /\ call.nums = <<>> /\ raised = "ValueError"

\* C5 (as claimed): a query with left > right raises instead of returning.
MalformedQueryRejected ==
    (call.op = "query" /\ call.left > call.right) => raised = "ValueError"

\* C6: repeating an update changes nothing: for every reachable tree, index
\* i in range and value v, update(i, v) twice gives the very heap that
\* update(i, v) once gives; in particular re-running the call just made.
UpdateIdempotent ==
    root # None =>
        /\ \A i \in Indices, v \in Vals :
              _update(_update(heap, root, i, v), root, i, v)
                 = _update(heap, root, i, v)
        /\ call.op = "update"
             => _update(heap, root, call.index, call.value) = heap

\* An update that changed the tree has run, and running it again would not.
RepeatedUpdateSeen ==
    /\ call.op = "update"
    /\ n >= 2
    /\ heap # pre
    /\ _update(heap, root, call.index, call.value) = heap

\* C7: an in-range update(i, v) changes the value of no node whose range
\* lacks i, allocates nothing, and no call after construction changes any
\* node's start, end, left or right.
UpdateFrame ==
    /\ call.op = "update" =>
          \A k \in Nodes :
              ~Covers(heap, k, call.index) => heap[k].value = pre[k].value
    /\ call.op \in {"update", "query"} => Shape(heap) = Shape(pre)

\* An update changed a node on its path while nodes off the path exist.
OffPathUntouchedSeen ==
    /\ call.op = "update"
    /\ heap # pre
    /\ \E k \in Nodes : ~Covers(heap, k, call.index)
    /\ \E k \in Nodes : ~IsLeaf(heap, k) /\ heap[k].value # pre[k].value

\* C8: for any integers left <= right a query returns the sum of the current
\* elements at the indices of [left, right] that lie in [0, n-1] (0 when
\* there are none) and raises nothing.
QueryClipsRange ==
    root # None =>
        /\ \A l \in Wide, r \in Wide :
              l <= r => _query(heap, root, l, r) = ClippedSum(arr, l, r)
        /\ \A l \in Wide, r \in Wide :
              (l <= r /\ (r < 0 \/ l > n - 1)) => _query(heap, root, l, r) = 0
        /\ (call.op = "query" /\ call.left <= call.right)
              => (raised = "none" /\ result = ClippedSum(arr, call.left, call.right))

\* A query reaching below index 0 and ending inside the list returned a
\* non-zero sum.
ClippedQuerySeen ==
    /\ call.op = "query"
    /\ call.left < 0
    /\ InRange(call.right) /\ call.right < n - 1
    /\ result # 0
    /\ result = RefSum(arr, 0, call.right)

RECURSIVE LeafDepths(_, _, _)
LeafDepths(h, k, d) ==
    IF h[k].left = None /\ h[k].right = None
    THEN {d}
    ELSE (IF h[k].left # None THEN LeafDepths(h, h[k].left, d + 1) ELSE {})
           \cup (IF h[k].right # None THEN LeafDepths(h, h[k].right, d + 1) ELSE {})

RECURSIVE CeilLog2From(_, _, _)
CeilLog2From(m, k, pow) == IF pow >= m THEN k ELSE CeilLog2From(m, k + 1, 2 * pow)

CeilLog2(m) == CeilLog2From(m, 0, 1)

\* The nodes reachable from k through left and right.
RECURSIVE Under(_, _)
Under(h, k) ==
    IF k = None THEN {} ELSE {k} \cup Under(h, h[k].left) \cup Under(h, h[k].right)

\* C10: the constructed tree's root covers [0, n-1]; a node with start < end
\* has two children covering [start, mid] and [mid+1, end] for
\* mid = floor((start+end)/2); a node with start = end has none; each index
\* has exactly one leaf; leaf depths differ by at most one and the height is
\* ceil(log2 n).
BuiltShape ==
    root # None =>
        /\ heap[root].start = 0 /\ heap[root].end = n - 1
        /\ Under(heap, root) = Nodes
        /\ \A k \in Nodes :
              IF heap[k].start < heap[k].end
              THEN LET mid == (heap[k].start + heap[k].end) \div 2
                       l   == heap[k].left
                       r   == heap[k].right
                   IN  /\ l # None /\ r # None /\ l # r
                       /\ heap[l].start = heap[k].start /\ heap[l].end = mid
                       /\ heap[r].start = mid + 1 /\ heap[r].end = heap[k].end
              ELSE /\ heap[k].start = heap[k].end
                   /\ heap[k].left = None /\ heap[k].right = None
        /\ \A i \in Indices :
              Cardinality({k \in Nodes : IsLeaf(heap, k) /\ heap[k].start = i}) = 1
        /\ \A d1 \in LeafDepths(heap, root, 0), d2 \in LeafDepths(heap, root, 0) :
              d1 - d2 <= 1
        /\ \A d \in LeafDepths(heap, root, 0) : d <= CeilLog2(n)
        /\ CeilLog2(n) \in LeafDepths(heap, root, 0)

\* A tree over three or more elements has just been constructed, with leaves
\* on two levels.
UnevenTreeBuiltSeen ==
    /\ call.op = "construct"
    /\ n >= 3
    /\ Cardinality(LeafDepths(heap, root, 0)) = 2

Consistent(h, k) == h[k].value = ChildSum(h, k)

Unwinding(p) == procs[p].pc \in {"u_left", "u_right", "u_store"}

\* C9: an update does not restore the sum invariant atomically.  While the
\* only update begun so far has stored a different value in its leaf and has
\* ancestors left to recompute, the lowest of them has a value that is not
\* the sum of its children (every other internal node still has), whether or
\* not a query runs alongside.
TornBetweenStores ==
    \A p \in Procs :
        (Unwinding(p) /\ started.update = 1 /\ procs[p].value # procs[p].old)
            => /\ ~Consistent(heap, Top(procs[p].stack))
               /\ \A k \in Nodes :
                     (~IsLeaf(heap, k) /\ k # Top(procs[p].stack))
                         => Consistent(heap, k)

\* One thread is between the stores of an update, the other is inside a call
\* of its own, and an internal node's value is not the sum of its children.
TornStateSeen ==
    \E p \in Procs, q \in Procs :
        /\ p # q
        /\ Unwinding(p)
        /\ procs[q].pc \notin {"idle", "done"}
        /\ \E k \in Nodes : ~IsLeaf(heap, k) /\ ~Consistent(heap, k)

====
